---- MODULE Spec2Model ----
(***************************************************************************)
(* Model of the allocation core of the AI hospital backend                 *)
(* (ai-hospital-backend/app/agent_manager.py and its collaborators).       *)
(*                                                                         *)
(* Program state: the Doctor, Ticket, Patient and AgentLog tables, the     *)
(* global PriorityQueue (heap and counter), the position of every          *)
(* start_patient_workflow handler and of the single allocation_worker      *)
(* task.  Every action is one run of a coroutine between two points at     *)
(* which it can be suspended (asyncio.sleep, the mock agents' send).       *)
(***************************************************************************)
EXTENDS Integers, Sequences, FiniteSets, Bags, TLC

\* ------------------------------------------------------------------------
\* Bounds of the model
\* ------------------------------------------------------------------------

\* number of submissions (Patient rows) explored
MaxTickets == 2

\* largest value of PriorityQueue._counter explored (put is cut off there)
MaxCounter == 4

\* largest number of sockets registered for one doctor
MaxConnections == 2

\* ------------------------------------------------------------------------
\* Program constants
\* ------------------------------------------------------------------------

\* None for a nullable integer column (ids start at 1, so 0 is free)
Null == 0

\* `d.max_patients or 5`
DefaultMaxPatients == 5

\* `ticket.priority_score + 5`
RequeuePenalty == 5

\* Ticket(priority_score=50) and the fallback score
DefaultScore == 50

\* TicketStatus, in the order of the enum (the ticket lifecycle)
TicketStatus ==
  << "created", "triage_done", "diagnostics_ordered", "physician_review",
     "pharmacy", "billing", "discharged", "cancelled" >>

StatusRank(s) == CHOOSE i \in 1..Len(TicketStatus) : TicketStatus[i] = s

Terminal == {"discharged", "cancelled"}

UrgencyEnum == {"critical", "urgent", "normal"}

\* Seeded Doctor tables explored: element i is the max_patients of doctor i
DoctorConfigs == { <<1>>, <<1, 2>>, <<0>> }

\* ------------------------------------------------------------------------
\* The classifier's answers explored (triage_agent.send)
\* ------------------------------------------------------------------------

\* kind: "text" is not JSON, "array" is JSON but no object, "object" is a
\* JSON object; urgency "<absent>" / score tag "absent" is a missing key.
TriageOutputs ==
  { [kind |-> "text",   urgency |-> "<absent>", score |-> <<"absent", 0>>],
    [kind |-> "array",  urgency |-> "<absent>", score |-> <<"absent", 0>>],
    [kind |-> "object", urgency |-> "critical", score |-> <<"int", 95>>],
    [kind |-> "object", urgency |-> "urgent",   score |-> <<"int", 90>>],
    [kind |-> "object", urgency |-> "severe",   score |-> <<"absent", 0>>],
    [kind |-> "object", urgency |-> "normal",   score |-> <<"str", 0>>] }

VARIABLES
  doctors,        \* Doctor table: sequence of max_patients, id = index
  tickets,        \* Ticket table: id -> row
  patient_count,  \* number of rows of the Patient table
  logs,           \* AgentLog table, a bag of rows
  sent,           \* bag of notification calls made (push and websocket)
  heap,           \* queue._heap: sequence of <<priority, counter, ticket_id>>
  counter,        \* queue._counter
  ipc,            \* position of the start_patient_workflow call, by its ticket id
  wpc,            \* position of allocation_worker
  popped,         \* the tuple the worker's last get() popped; ticket_id is popped[3]
  delivery,       \* outcome of the last iteration's notification delivery
  connected_doctors, \* notifications.connected_doctors: doctor id -> list of sockets
  bc,             \* the broadcast_to_doctor call in progress, or the last one
  response        \* the last answer of a lookup endpoint of the HTTP API

vars ==
  << doctors, tickets, patient_count, logs, sent, heap, counter, ipc, wpc,
     popped, delivery, connected_doctors, bc, response >>

\* ------------------------------------------------------------------------
\* heapq on tuples (priority, counter, ticket_id)
\* ------------------------------------------------------------------------

\* Python's tuple comparison
TupleLess(a, b) ==
  \/ a[1] < b[1]
  \/ a[1] = b[1] /\ a[2] < b[2]
  \/ a[1] = b[1] /\ a[2] = b[2] /\ a[3] < b[3]

RECURSIVE siftdown(_, _, _, _)
\* heapq._siftdown: move newitem from pos towards startpos
siftdown(h, startpos, pos, newitem) ==
  IF pos > startpos /\ TupleLess(newitem, h[pos \div 2])
    THEN siftdown([h EXCEPT ![pos] = h[pos \div 2]], startpos, pos \div 2, newitem)
    ELSE [h EXCEPT ![pos] = newitem]

RECURSIVE siftup(_, _, _)
\* heapq._siftup: bubble the smaller child up to a leaf, then sift down
siftup(h, pos, newitem) ==
  LET childpos == 2 * pos
      rightpos == childpos + 1
      c == IF rightpos <= Len(h) /\ ~TupleLess(h[childpos], h[rightpos])
             THEN rightpos ELSE childpos
  IN IF childpos <= Len(h)
       THEN siftup([h EXCEPT ![pos] = h[c]], c, newitem)
       ELSE siftdown(h, 1, pos, newitem)

heappush_unsifted(h, item) == Append(h, item)

heappush(h, item) == siftdown(Append(h, item), 1, Len(h) + 1, item)

\* heappop: the item returned and the heap left
heappop_item(h) == h[1]

heappop_rest(h) ==
  LET lastelt == h[Len(h)]
      rest == SubSeq(h, 1, Len(h) - 1)
  IN IF rest = <<>> THEN rest ELSE siftup(rest, 1, lastelt)

\* ------------------------------------------------------------------------
\* find_available_doctor
\* ------------------------------------------------------------------------

\* db.query(Ticket).filter(doctor_id == d, status != discharged).count()
ActiveCount(d) ==
  Cardinality({t \in DOMAIN tickets :
                 tickets[t].doctor_id = d /\ tickets[t].status # "discharged"})

\* d.max_patients or 5
EffectiveMax(d) == IF doctors[d] = 0 THEN DefaultMaxPatients ELSE doctors[d]

HasRoom_atmost(d) == ActiveCount(d) <= EffectiveMax(d)

HasRoom(d) == ActiveCount(d) < EffectiveMax(d)

\* the first doctor with fewer than max_patients active, or Null
find_available_doctor ==
  LET free == {d \in 1..Len(doctors) : HasRoom(d)}
  IN IF free = {} THEN Null ELSE CHOOSE d \in free : \A e \in free : d <= e

\* no lookup has been answered
NoResponse == [op |-> "none"]

\* no call of broadcast_to_doctor has been made
NoBroadcast ==
  [pc |-> "idle", doctor_id |-> Null, list |-> << >>, shared |-> FALSE,
   pos |-> 0, at_call |-> << >>, attempted |-> << >>, failed |-> {}]

\* ------------------------------------------------------------------------
\* Init
\* ------------------------------------------------------------------------

Init ==
  /\ doctors \in DoctorConfigs
  /\ tickets = << >>
  /\ patient_count = 0
  /\ logs = EmptyBag
  /\ sent = EmptyBag
  /\ heap = << >>
  /\ counter = 0
  /\ ipc = << >>
  /\ wpc = "get"
  /\ popped = << >>
  /\ delivery = "none"
  /\ connected_doctors = << >>
  /\ bc = NoBroadcast
  /\ response = NoResponse

\* ------------------------------------------------------------------------
\* PriorityQueue
\* ------------------------------------------------------------------------

\* the set of entries held by a heap
Entries(h) == {h[i] : i \in 1..Len(h)}

put_samecounter(priority, ticket_id) ==
  /\ counter < MaxCounter
  /\ counter' = counter
  /\ heap' = heappush(heap, <<priority, counter, ticket_id>>)

\* PriorityQueue.put: the lock is never held across a suspension, so the
\* body runs as one step
put(priority, ticket_id) ==
  /\ counter < MaxCounter
  /\ counter' = counter + 1
  /\ heap' = heappush(heap, <<priority, counter + 1, ticket_id>>)

get_peek ==
  IF heap = << >>
    THEN popped' = << >> /\ heap' = heap
    ELSE /\ popped' = heappop_item(heap)
         /\ heap' = heap

\* PriorityQueue.get: None (no entry) on an empty heap
get ==
  IF heap = << >>
    THEN popped' = << >> /\ heap' = heap
    ELSE /\ popped' = heappop_item(heap)
         /\ heap' = heappop_rest(heap)

\* ------------------------------------------------------------------------
\* start_patient_workflow
\* ------------------------------------------------------------------------

\* the id the Ticket table gives a new row (INTEGER PRIMARY KEY: max + 1)
NewTicketId ==
  IF DOMAIN tickets = {} THEN 1
  ELSE 1 + CHOOSE m \in DOMAIN tickets : \A t \in DOMAIN tickets : t <= m

AgentLogRow_nodoctor(id, stage, doctor) ==
  [ticket_id |-> id, stage |-> stage, doctor_id |-> Null]

AgentLogRow(id, stage, doctor) ==
  [ticket_id |-> id, stage |-> stage, doctor_id |-> doctor]

\* steps 1 and 2, up to the wait for the reception agent
start_patient_workflow_create ==
  /\ NewTicketId \in DOMAIN ipc => ipc[NewTicketId] \in {"done", "failed"}
  /\ patient_count' = patient_count + 1
  /\ tickets' = [t \in DOMAIN tickets \cup {NewTicketId} |->
                   IF t = NewTicketId
                     THEN [patient_id |-> patient_count + 1, doctor_id |-> Null,
                           status |-> "created", urgency |-> "normal",
                           priority_score |-> DefaultScore]
                     ELSE tickets[t]]
  /\ ipc' = [t \in DOMAIN ipc \cup {NewTicketId} |->
                IF t = NewTicketId THEN "reception" ELSE ipc[t]]
  /\ UNCHANGED <<connected_doctors, bc, response, doctors, logs, sent, heap, counter, wpc, popped, delivery>>

\* step 3: the reception answer is logged, then the wait for the triage agent
start_patient_workflow_reception(id) ==
  /\ ipc[id] = "reception"
  /\ logs' = logs (+) SetToBag({AgentLogRow(id, "reception", Null)})
  /\ ipc' = [ipc EXCEPT ![id] = "triage"]
  /\ UNCHANGED <<connected_doctors, bc, response, doctors, tickets, patient_count, sent, heap, counter, wpc,
                 popped, delivery>>

\* try: json.loads(...) except: the default answer
triage_json(resp) ==
  IF resp.kind = "text"
    THEN [kind |-> "object", urgency |-> "normal", score |-> <<"int", DefaultScore>>]
    ELSE resp

\* triage_json.get on a non-object, or int() of a non-numeric value, raises
TriageRaises(resp) ==
  \/ triage_json(resp).kind # "object"
  \/ triage_json(resp).score[1] \notin {"int", "absent"}

\* int(triage_json.get("score", 50))
TriageScore(resp) ==
  IF triage_json(resp).score[1] = "absent" THEN DefaultScore
  ELSE triage_json(resp).score[2]

\* UrgencyEnum(urgency) if urgency is a value of the enum, else normal
TriageUrgency(resp) ==
  IF triage_json(resp).urgency \in UrgencyEnum
    THEN triage_json(resp).urgency ELSE "normal"

PriorityOf_uninverted(score) == IF score > 0 THEN score ELSE 0

PriorityOf_unclamped(score) == 100 - score

\* max(0, 100 - score)
PriorityOf(score) == IF 100 - score > 0 THEN 100 - score ELSE 0

start_patient_workflow_triage_unqueued(id, resp) ==
  /\ ipc[id] = "triage"
  /\ IF TriageRaises(resp)
       THEN /\ ipc' = [ipc EXCEPT ![id] = "failed"]
            /\ UNCHANGED <<tickets, logs>>
       ELSE /\ tickets' = [tickets EXCEPT
                             ![id].urgency = TriageUrgency(resp),
                             ![id].priority_score = PriorityOf(TriageScore(resp)),
                             ![id].status = "triage_done"]
            /\ logs' = logs (+) SetToBag({AgentLogRow(id, "triage", Null)})
            /\ ipc' = [ipc EXCEPT ![id] = "done"]
  /\ UNCHANGED <<connected_doctors, bc, response, doctors, patient_count, sent,
                 heap, counter, wpc, popped, delivery>>

\* steps 4 and 5: parse the triage answer, store it, log it, enqueue, return
start_patient_workflow_triage(id, resp) ==
  /\ ipc[id] = "triage"
  /\ IF TriageRaises(resp)
       THEN /\ ipc' = [ipc EXCEPT ![id] = "failed"]
            /\ UNCHANGED <<tickets, logs, heap, counter>>
       ELSE /\ tickets' = [tickets EXCEPT
                             ![id].urgency = TriageUrgency(resp),
                             ![id].priority_score = PriorityOf(TriageScore(resp)),
                             ![id].status = "triage_done"]
            /\ logs' = logs (+) SetToBag({AgentLogRow(id, "triage", Null)})
            /\ put(PriorityOf(TriageScore(resp)), id)
            /\ ipc' = [ipc EXCEPT ![id] = "done"]
  /\ UNCHANGED <<connected_doctors, bc, response, doctors, patient_count, sent, wpc, popped, delivery>>

\* ------------------------------------------------------------------------
\* allocation_worker
\* ------------------------------------------------------------------------

\* ticket_id = await queue.get()
allocation_worker_get ==
  /\ wpc = "get"
  /\ get
  /\ wpc' = IF heap = << >> THEN "idle" ELSE "fetch"
  /\ UNCHANGED <<connected_doctors, bc, response, doctors, tickets, patient_count, logs, sent, counter, ipc,
                 delivery>>

\* the end of one of the three sleeps (0.5 s idle, 2 s cooldown, 0.3 s yield)
allocation_worker_wake ==
  /\ wpc \in {"idle", "cooldown", "yield"}
  /\ wpc' = "get"
  /\ popped' = << >>
  /\ delivery' = "none"
  /\ UNCHANGED <<connected_doctors, bc, response, doctors, tickets, patient_count, logs, sent, heap, counter, ipc>>

\* `if not ticket`
TicketMissing(id) == id \notin DOMAIN tickets

AlreadyAssigned_never(id) == FALSE

\* `if ticket.doctor_id`
AlreadyAssigned(id) == tickets[id].doctor_id # Null

RequeuePriority_accumulating(id) == popped[1] + RequeuePenalty

RequeuePriority_ten(id) == tickets[id].priority_score + 10

\* ticket.priority_score + 5
RequeuePriority(id) == tickets[id].priority_score + RequeuePenalty

Discard_requeue ==
  /\ put(popped[1], popped[3])
  /\ wpc' = "get"
  /\ UNCHANGED <<tickets, logs, sent, delivery>>

\* `continue` on a missing or already assigned ticket
Discard ==
  /\ wpc' = "get"
  /\ UNCHANGED <<tickets, logs, sent, heap, counter, delivery>>

Requeue_dropping(id) ==
  /\ wpc' = "cooldown"
  /\ UNCHANGED <<tickets, logs, sent, heap, counter, delivery>>

Requeue_nocooldown(id) ==
  /\ put(RequeuePriority(id), id)
  /\ wpc' = "get"
  /\ UNCHANGED <<tickets, logs, sent, delivery>>

\* no doctor: requeue, then the cooldown
Requeue(id) ==
  /\ put(RequeuePriority(id), id)
  /\ wpc' = "cooldown"
  /\ UNCHANGED <<tickets, logs, sent, delivery>>

\* the notification calls of one assignment
Notifications(id, d) ==
  SetToBag({ [kind |-> "push", doctor_id |-> d, ticket_id |-> id],
             [kind |-> "ws", doctor_id |-> d, ticket_id |-> id] })

Assign_unqueued(id, d) ==
  LET waiting == {t \in DOMAIN tickets : tickets[t].doctor_id = Null /\ t # id}
      other == IF waiting = {} THEN id ELSE CHOOSE t \in waiting : TRUE
  IN /\ tickets' = [tickets EXCEPT ![other].doctor_id = d]
     /\ logs' = logs (+) SetToBag({AgentLogRow(other, "allocation", d)})
     /\ sent' = sent (+) Notifications(other, d)
     /\ delivery' \in {"ok", "failed"}
     /\ wpc' = "yield"
     /\ UNCHANGED <<heap, counter>>

Assign_reverting(id, d) ==
  /\ delivery' \in {"ok", "failed"}
  /\ tickets' = IF delivery' = "failed" THEN tickets
                ELSE [tickets EXCEPT ![id].doctor_id = d]
  /\ logs' = logs (+) SetToBag({AgentLogRow(id, "allocation", d)})
  /\ sent' = sent (+) Notifications(id, d)
  /\ wpc' = "yield"
  /\ UNCHANGED <<heap, counter>>

\* assign, commit, log, commit, notify (delivery may fail, the error is swallowed)
Assign(id, d) ==
  /\ tickets' = [tickets EXCEPT ![id].doctor_id = d]
  /\ logs' = logs (+) SetToBag({AgentLogRow(id, "allocation", d)})
  /\ sent' = sent (+) Notifications(id, d)
  /\ delivery' \in {"ok", "failed"}
  /\ wpc' = "yield"
  /\ UNCHANGED <<heap, counter>>

\* the body of one iteration after a successful get()
allocation_worker_process ==
  /\ wpc = "fetch"
  /\ IF TicketMissing(popped[3]) THEN Discard
     ELSE IF AlreadyAssigned(popped[3]) THEN Discard
     ELSE IF find_available_doctor = Null THEN Requeue(popped[3])
     ELSE Assign(popped[3], find_available_doctor)
  /\ UNCHANGED <<connected_doctors, bc, response, doctors, patient_count, ipc, popped>>

\* ------------------------------------------------------------------------
\* The environment: other writers of the Ticket table
\* ------------------------------------------------------------------------

\* a later stage marks a triaged ticket discharged or cancelled
ExternalStatus(t, s) ==
  /\ t \in DOMAIN tickets
  /\ ipc[t] = "done"
  /\ tickets[t].status \notin Terminal
  /\ tickets' = [tickets EXCEPT ![t].status = s]
  /\ UNCHANGED <<connected_doctors, bc, response, doctors, patient_count, logs, sent, heap, counter, ipc, wpc,
                 popped, delivery>>

\* the row has been deleted from the Ticket table
ExternalDelete(t) ==
  /\ t \in DOMAIN tickets
  /\ ipc[t] = "done"
  /\ tickets' = [u \in DOMAIN tickets \ {t} |-> tickets[u]]
  /\ UNCHANGED <<connected_doctors, bc, response, doctors, patient_count, logs, sent, heap, counter, ipc, wpc,
                 popped, delivery>>

\* ------------------------------------------------------------------------
\* Storage errors in allocation_worker: db.commit() raises.  The body of
\* the loop has try/finally and no except, so the error leaves the loop
\* and the task ends.
\* ------------------------------------------------------------------------

WouldAssign ==
  /\ wpc = "fetch"
  /\ ~TicketMissing(popped[3])
  /\ ~AlreadyAssigned(popped[3])
  /\ find_available_doctor # Null

\* the commit of ticket.doctor_id raises: the session is closed, nothing is stored
allocation_worker_assign_commit_raises ==
  /\ WouldAssign
  /\ wpc' = "crashed"
  /\ UNCHANGED <<connected_doctors, bc, response, doctors, tickets, patient_count, logs, sent, heap, counter,
                 ipc, popped, delivery>>

\* the commit of the AgentLog row raises: the assignment is already stored
allocation_worker_log_commit_raises ==
  /\ WouldAssign
  /\ tickets' = [tickets EXCEPT ![popped[3]].doctor_id = find_available_doctor]
  /\ wpc' = "crashed"
  /\ UNCHANGED <<connected_doctors, bc, response, doctors, patient_count, logs, sent, heap, counter, ipc,
                 popped, delivery>>

\* ------------------------------------------------------------------------
\* Specifications
\* ------------------------------------------------------------------------

\* the program with a fresh database and no storage errors
Next ==
  \/ patient_count < MaxTickets /\ start_patient_workflow_create
  \/ \E id \in DOMAIN ipc : start_patient_workflow_reception(id)
  \/ \E id \in DOMAIN ipc, resp \in TriageOutputs : start_patient_workflow_triage(id, resp)
  \/ allocation_worker_get
  \/ allocation_worker_process
  \/ allocation_worker_wake
  \/ \E t \in DOMAIN tickets, s \in Terminal : ExternalStatus(t, s)

Spec == Init /\ [][Next]_vars

\* the same with storage errors in the worker and rows deleted by others
NextFault ==
  \/ Next
  \/ \E t \in DOMAIN tickets : ExternalDelete(t)
  \/ allocation_worker_assign_commit_raises
  \/ allocation_worker_log_commit_raises

SpecFault == Init /\ [][NextFault]_vars

\* The requeue scenario: the process starts on a database that already
\* holds one doctor of capacity 1 and one ticket assigned to that doctor;
\* three patients are submitted and the classifier answers with well-formed
\* scores only.
ScenarioSubmissions == {"A", "B", "C"}

ScenarioOutputs == {r \in TriageOutputs : r.kind = "object" /\ r.score[1] = "int"}

InitScenario ==
  /\ doctors = <<1>>
  /\ tickets = <<[patient_id |-> 1, doctor_id |-> 1, status |-> "triage_done",
                  urgency |-> "normal", priority_score |-> DefaultScore]>>
  /\ patient_count = 1
  /\ logs = SetToBag({AgentLogRow(1, "reception", Null),
                      AgentLogRow(1, "triage", Null),
                      AgentLogRow(1, "allocation", 1)})
  /\ sent = EmptyBag
  /\ heap = << >>
  /\ counter = 0
  /\ ipc = <<"done">>
  /\ wpc = "get"
  /\ popped = << >>
  /\ delivery = "none"
  /\ connected_doctors = << >>
  /\ bc = NoBroadcast
  /\ response = NoResponse

NextScenario ==
  \/ /\ Cardinality(DOMAIN tickets) <= Cardinality(ScenarioSubmissions)
     /\ start_patient_workflow_create
  \/ \E id \in DOMAIN ipc : start_patient_workflow_reception(id)
  \/ \E id \in DOMAIN ipc, resp \in ScenarioOutputs : start_patient_workflow_triage(id, resp)
  \/ allocation_worker_get
  \/ allocation_worker_process
  \/ allocation_worker_wake
  \/ \E t \in DOMAIN tickets : ExternalStatus(t, "discharged")

SpecScenario == InitScenario /\ [][NextScenario]_vars

\* The queue alone: any sequence of put and get calls.
QueuePriorities == {5, 10}

QueueTickets == {1, 2}

queue_put(priority, ticket_id) ==
  /\ put(priority, ticket_id)
  /\ UNCHANGED <<connected_doctors, bc, response, doctors, tickets, patient_count, logs, sent, ipc, wpc, popped,
                 delivery>>

queue_get ==
  /\ get
  /\ UNCHANGED <<connected_doctors, bc, response, doctors, tickets, patient_count, logs, sent, counter, ipc, wpc,
                 delivery>>

NextQueue ==
  \/ \E priority \in QueuePriorities, ticket_id \in QueueTickets :
       queue_put(priority, ticket_id)
  \/ queue_get

SpecQueue == Init /\ [][NextQueue]_vars

\* ------------------------------------------------------------------------
\* notifications: the WebSocket registry and broadcast_to_doctor
\* ------------------------------------------------------------------------

\* the sockets and the doctor ids of /ws/doctor/{doctor_id} explored
WebSockets == {"ws1", "ws2"}

WsDoctors == {1, 2}

\* [w for w in connected_doctors[doctor_id] if w != ws]
RECURSIVE Without(_, _)
Without(list, ws) ==
  IF list = << >> THEN << >>
  ELSE IF list[1] = ws THEN Without(Tail(list), ws)
  ELSE <<list[1]>> \o Without(Tail(list), ws)

\* connected_doctors.get(doctor_id, [])
Connected(doctor_id) ==
  IF doctor_id \in DOMAIN connected_doctors THEN connected_doctors[doctor_id]
  ELSE << >>

\* the broadcast in progress iterates the list object stored for doctor_id
Iterating(doctor_id) ==
  bc.pc = "sending" /\ bc.doctor_id = doctor_id /\ bc.shared

\* connected_doctors.setdefault(doctor_id, []).append(ws): the list object
\* is appended in place, so a loop that iterates it sees the new element
register_ws(doctor_id, ws) ==
  /\ Len(Connected(doctor_id)) < MaxConnections
  /\ connected_doctors' =
       [d \in DOMAIN connected_doctors \cup {doctor_id} |->
          IF d = doctor_id THEN Append(Connected(doctor_id), ws)
          ELSE connected_doctors[d]]
  /\ bc' = IF Iterating(doctor_id) THEN [bc EXCEPT !.list = Append(@, ws)] ELSE bc
  /\ UNCHANGED <<response, doctors, tickets, patient_count, logs, sent, heap,
                 counter, ipc, wpc, popped, delivery>>

\* the list is rebuilt as a new object (a loop in progress keeps the old
\* one) and the key is deleted once the list is empty
unregister_ws(doctor_id, ws) ==
  /\ doctor_id \in DOMAIN connected_doctors
  /\ connected_doctors' =
       IF Without(connected_doctors[doctor_id], ws) = << >>
         THEN [d \in DOMAIN connected_doctors \ {doctor_id} |-> connected_doctors[d]]
         ELSE [connected_doctors EXCEPT ![doctor_id] = Without(@, ws)]
  /\ bc' = IF Iterating(doctor_id) THEN [bc EXCEPT !.shared = FALSE] ELSE bc
  /\ UNCHANGED <<response, doctors, tickets, patient_count, logs, sent, heap,
                 counter, ipc, wpc, popped, delivery>>

\* broadcast_to_doctor up to its first suspension: return at once for a
\* doctor without sockets, else start the loop and send to the first socket
broadcast_to_doctor_call(doctor_id) ==
  /\ bc.pc \in {"idle", "returned"}
  /\ bc' = IF doctor_id \notin DOMAIN connected_doctors
             THEN [NoBroadcast EXCEPT !.pc = "returned", !.doctor_id = doctor_id]
             ELSE [pc |-> "sending", doctor_id |-> doctor_id,
                   list |-> connected_doctors[doctor_id], shared |-> TRUE,
                   pos |-> 1, at_call |-> connected_doctors[doctor_id],
                   attempted |-> <<connected_doctors[doctor_id][1]>>,
                   failed |-> {}]
  /\ UNCHANGED <<connected_doctors, response, doctors, tickets, patient_count,
                 logs, sent, heap, counter, ipc, wpc, popped, delivery>>

\* the next turn of `for ws in connected_doctors[doctor_id]`
NextSocket(b) ==
  IF b.pos < Len(b.list)
    THEN [b EXCEPT !.pos = @ + 1, !.attempted = Append(@, b.list[b.pos + 1])]
    ELSE [b EXCEPT !.pc = "returned"]

AfterSend_propagating(outcome) ==
  IF outcome = "raises"
    THEN [bc EXCEPT !.pc = "raised", !.failed = @ \cup {bc.pos}]
    ELSE NextSocket(bc)

\* try: await ws.send_json(data) / except Exception: print(...)
AfterSend(outcome) ==
  IF outcome = "raises"
    THEN NextSocket([bc EXCEPT !.failed = @ \cup {bc.pos}])
    ELSE NextSocket(bc)

\* `await ws.send_json(data)` completes or raises; the loop goes on
broadcast_to_doctor_send(outcome) ==
  /\ bc.pc = "sending"
  /\ bc' = AfterSend(outcome)
  /\ UNCHANGED <<connected_doctors, response, doctors, tickets, patient_count,
                 logs, sent, heap, counter, ipc, wpc, popped, delivery>>

\* The registry alone: any interleaving of connections, disconnections and
\* broadcasts.
NextWs ==
  \/ \E doctor_id \in WsDoctors, ws \in WebSockets : register_ws(doctor_id, ws)
  \/ \E doctor_id \in WsDoctors, ws \in WebSockets : unregister_ws(doctor_id, ws)
  \/ \E doctor_id \in WsDoctors : broadcast_to_doctor_call(doctor_id)
  \/ \E outcome \in {"ok", "raises"} : broadcast_to_doctor_send(outcome)

SpecWs == Init /\ [][NextWs]_vars

\* ------------------------------------------------------------------------
\* The lookup endpoints of the HTTP API
\* ------------------------------------------------------------------------

\* HTTPException(status_code=404, detail=...)
NotFound(op, arg, detail) ==
  [op |-> op, arg |-> arg, status_code |-> 404, detail |-> detail]

\* the JSON body with status 200
Ok(op, arg, body) == [op |-> op, arg |-> arg, status_code |-> 200, body |-> body]

\* db.get(Ticket, ticket_id)
TicketExists(ticket_id) == ticket_id \in DOMAIN tickets

DoctorExists_always(doctor_id) == TRUE

\* db.get(Doctor, doctor_id)
DoctorExists(doctor_id) == doctor_id \in 1..Len(doctors)

\* the elements of a set of ids as a list in ascending order (rowid order)
RECURSIVE Ascending(_)
Ascending(ids) ==
  IF ids = {} THEN << >>
  ELSE LET m == CHOOSE i \in ids : \A j \in ids : i <= j
       IN <<m>> \o Ascending(ids \ {m})

\* db.query(Ticket).filter(Ticket.doctor_id == doctor_id).all()
DoctorTickets(doctor_id) ==
  Ascending({t \in DOMAIN tickets : tickets[t].doctor_id = doctor_id})

\* GET /api/tickets/{ticket_id}
api_get_ticket(ticket_id) ==
  /\ response' =
       IF ~TicketExists(ticket_id)
         THEN NotFound("api_get_ticket", ticket_id, "Ticket not found")
         ELSE Ok("api_get_ticket", ticket_id,
                 [id |-> ticket_id,
                  status |-> tickets[ticket_id].status,
                  urgency |-> tickets[ticket_id].urgency,
                  patient |-> tickets[ticket_id].patient_id,
                  doctor_id |-> tickets[ticket_id].doctor_id])
  /\ UNCHANGED <<connected_doctors, bc, doctors, tickets, patient_count, logs,
                 sent, heap, counter, ipc, wpc, popped, delivery>>

\* GET /api/doctor/{doctor_id}/tickets
api_get_doctor_tickets(doctor_id) ==
  /\ response' =
       IF ~DoctorExists(doctor_id)
         THEN NotFound("api_get_doctor_tickets", doctor_id, "Doctor not found")
         ELSE Ok("api_get_doctor_tickets", doctor_id,
                 [i \in 1..Len(DoctorTickets(doctor_id)) |->
                    [id |-> DoctorTickets(doctor_id)[i],
                     status |-> tickets[DoctorTickets(doctor_id)[i]].status,
                     urgency |-> tickets[DoctorTickets(doctor_id)[i]].urgency,
                     patient |-> tickets[DoctorTickets(doctor_id)[i]].patient_id]])
  /\ UNCHANGED <<connected_doctors, bc, doctors, tickets, patient_count, logs,
                 sent, heap, counter, ipc, wpc, popped, delivery>>

\* the answer has been handed to the client
api_respond ==
  /\ response # NoResponse
  /\ response' = NoResponse
  /\ UNCHANGED <<connected_doctors, bc, doctors, tickets, patient_count, logs,
                 sent, heap, counter, ipc, wpc, popped, delivery>>

\* The program with its lookup endpoints; ids one past the last row are the
\* unknown ones.  A lookup and the delivery of its answer are observed as
\* two consecutive steps.
NextApi ==
  \/ response = NoResponse /\ Next
  \/ /\ response = NoResponse
     /\ \E ticket_id \in 1..(patient_count + 1) : api_get_ticket(ticket_id)
  \/ /\ response = NoResponse
     /\ \E doctor_id \in 1..(Len(doctors) + 1) : api_get_doctor_tickets(doctor_id)
  \/ api_respond

SpecApi == Init /\ [][NextApi]_vars

\* ------------------------------------------------------------------------
\* Intake alone, over the integer scores a classifier can answer
\* ------------------------------------------------------------------------

\* scores below, at the ends of, inside and above the range 0..100
PriorityScores == {-5, 0, 1, 50, 99, 100, 101, 250}

\* a well-formed triage answer for each of these scores
PriorityOutputs ==
  {[kind |-> "object", urgency |-> "normal", score |-> <<"int", sc>>] :
     sc \in PriorityScores}

NextPriority ==
  \/ patient_count < MaxTickets /\ start_patient_workflow_create
  \/ \E id \in DOMAIN ipc : start_patient_workflow_reception(id)
  \/ \E id \in DOMAIN ipc, resp \in PriorityOutputs :
       start_patient_workflow_triage(id, resp)

SpecPriority == Init /\ [][NextPriority]_vars

\* ------------------------------------------------------------------------
\* The program with the mock classifier (mock_llm.MockAssistant)
\* ------------------------------------------------------------------------

\* the three answers of the mock triage agent
MockOutputs ==
  { [kind |-> "object", urgency |-> "critical", score |-> <<"int", 95>>],
    [kind |-> "object", urgency |-> "urgent",   score |-> <<"int", 80>>],
    [kind |-> "object", urgency |-> "normal",   score |-> <<"int", 60>>] }

NextMock ==
  \/ patient_count < MaxTickets /\ start_patient_workflow_create
  \/ \E id \in DOMAIN ipc : start_patient_workflow_reception(id)
  \/ \E id \in DOMAIN ipc, resp \in MockOutputs : start_patient_workflow_triage(id, resp)
  \/ allocation_worker_get
  \/ allocation_worker_process
  \/ allocation_worker_wake
  \/ \E t \in DOMAIN tickets, s \in Terminal : ExternalStatus(t, s)

SpecMock == Init /\ [][NextMock]_vars

\* ------------------------------------------------------------------------
\* Properties
\* ------------------------------------------------------------------------

\* tickets of doctor d that are neither discharged nor cancelled
NonTerminalCount(d) ==
  Cardinality({t \in DOMAIN tickets :
                 tickets[t].doctor_id = d /\ tickets[t].status \notin Terminal})

\* a step of allocation_worker (each of its steps moves wpc)
WorkerStep == wpc' # wpc

\* C1: capacity invariant.  For every doctor with max_patients >= 1 the
\* number of tickets assigned to it whose status is neither discharged nor
\* cancelled never exceeds max_patients, whatever the interleaving of
\* submissions, worker iterations and external moves to a terminal status.
C1_CapacityInvariant ==
  \A d \in 1..Len(doctors) :
    doctors[d] >= 1 => NonTerminalCount(d) <= doctors[d]

\* every doctor is at its capacity and the worker has just turned a ticket away
C1_Witness ==
  /\ wpc = "cooldown"
  /\ \A d \in 1..Len(doctors) : doctors[d] >= 1 /\ NonTerminalCount(d) = doctors[d]
  /\ \E t \in DOMAIN tickets : tickets[t].doctor_id = Null /\ popped[3] = t

\* the entry with the smallest (priority, sequence number) pair
MinEntry(h) ==
  CHOOSE e \in Entries(h) :
    \A f \in Entries(h) : e[1] < f[1] \/ (e[1] = f[1] /\ e[2] <= f[2])

\* C2: priority order of PriorityQueue.  Every get() on a non-empty queue
\* removes and returns exactly the entry with the smallest (priority,
\* sequence number) pair, and every put() adds one entry whose sequence
\* number is larger than that of every entry put before; so a run of get()
\* calls returns tickets in non-decreasing priority, equal priorities in
\* the order of their put() calls.
C2_PriorityOrder ==
  [][ /\ Len(heap') < Len(heap) =>
           /\ popped' = MinEntry(heap)
           /\ Len(heap') = Len(heap) - 1
           /\ Entries(heap') = Entries(heap) \ {MinEntry(heap)}
      /\ Len(heap') > Len(heap) =>
           /\ Len(heap') = Len(heap) + 1
           /\ \E e \in Entries(heap') \ Entries(heap) :
                /\ Entries(heap') = Entries(heap) \cup {e}
                /\ e[2] = counter'
                /\ \A f \in Entries(heap) : f[2] < e[2]
    ]_vars

\* get() has returned the earlier of two entries of equal priority while an
\* entry of larger priority that was put before both is still waiting
C2_Witness ==
  /\ popped # << >>
  /\ \E e \in Entries(heap), f \in Entries(heap) :
       /\ e[1] = popped[1] /\ e[2] > popped[2]
       /\ f[1] > popped[1] /\ f[2] < popped[2]
  /\ Len(heap) >= 3

\* C3: no double assignment.  A step of the allocation loop never changes a
\* doctor_id that is already set, neither to another doctor nor back to
\* null, also when it processes a later queue entry for the same ticket.
C3_NoDoubleAssignment ==
  [][ WorkerStep =>
        \A t \in DOMAIN tickets :
          tickets[t].doctor_id # Null =>
            /\ t \in DOMAIN tickets'
            /\ tickets'[t].doctor_id = tickets[t].doctor_id
    ]_vars

\* the loop has popped a second entry for a ticket it assigned before and has
\* dropped it: the ticket still has the doctor its allocation log records
C3_Witness ==
  /\ wpc = "get"
  /\ popped # << >>
  /\ popped[3] \in DOMAIN tickets
  /\ tickets[popped[3]].doctor_id # Null
  /\ BagIn(AgentLogRow(popped[3], "allocation", tickets[popped[3]].doctor_id), logs)

\* C4: idempotent re-fetch.  An iteration whose popped ticket no longer
\* exists or already has a doctor_id writes no ticket, appends no AgentLog
\* row, sends no notification and puts nothing back in the queue.
C4_IdempotentRefetch ==
  [][ ( /\ wpc = "fetch"
        /\ WorkerStep
        /\ \/ popped[3] \notin DOMAIN tickets
           \/ tickets[popped[3]].doctor_id # Null )
      => /\ tickets' = tickets
         /\ logs' = logs
         /\ sent' = sent
         /\ heap' = heap
         /\ counter' = counter
    ]_vars

\* the loop has dropped the entry of a ticket that no longer exists
C4_Witness ==
  /\ wpc = "get"
  /\ popped # << >>
  /\ popped[3] \notin DOMAIN tickets

\* C5: a failed commit of doctor_id is not data loss.  After the failure
\* the ticket has a null doctor_id and a queue entry at its stored
\* priority_score.
C5_CommitFailureRequeues ==
  ( /\ wpc = "crashed"
    /\ popped[3] \in DOMAIN tickets
    /\ tickets[popped[3]].doctor_id = Null )
  => \E e \in Entries(heap) :
       e[3] = popped[3] /\ e[1] = tickets[popped[3]].priority_score

\* C6: no error raised inside an iteration leaves the loop; the loop is
\* running after every iteration and dequeues again.
C6_LoopNeverTerminates == wpc # "crashed"

\* C7: liveness under saturation, in the form a finite run refutes.  When
\* the loop processes a requeued, still unassigned ticket while some doctor
\* has spare capacity because one of its tickets has reached a terminal
\* status (discharged or cancelled), that iteration assigns the ticket
\* instead of requeueing it again (so one further iteration is the bound).
C7_AssignedOnceCapacityFrees ==
  [][ ( /\ wpc = "fetch"
        /\ WorkerStep
        /\ popped[3] \in DOMAIN tickets
        /\ tickets[popped[3]].doctor_id = Null
        /\ popped[1] = tickets[popped[3]].priority_score + RequeuePenalty
        /\ \E d \in 1..Len(doctors) :
             /\ doctors[d] >= 1
             /\ NonTerminalCount(d) < doctors[d]
             /\ \E u \in DOMAIN tickets :
                  tickets[u].doctor_id = d /\ tickets[u].status \in Terminal )
      => tickets'[popped[3]].doctor_id # Null
    ]_vars

\* The requeue scenario, with rq the priority B is requeued at.  One doctor
\* of capacity 1 is full; A (priority 10), B (priority 5) and C (priority 5)
\* were put in that order.
\*  (1) the first get() pops B;
\*  (2) B's attempt finds no capacity and puts B back at priority rq;
\*  (3) the get() after that pops C, not B.
ScenarioFull == doctors = <<1>> /\ NonTerminalCount(1) >= 1

ScenarioTicket(t, score) ==
  /\ t \in DOMAIN tickets
  /\ tickets[t].doctor_id = Null
  /\ tickets[t].priority_score = score

\* a first queue entry of a ticket whose priority_score is score
ScenarioEntry(e, score) == e[1] = score /\ ScenarioTicket(e[3], score)

ScenarioStep(rq) ==
  WorkerStep =>
    /\ (wpc = "get" /\ ScenarioFull /\ Len(heap) = 3) =>
         \A ea \in Entries(heap), eb \in Entries(heap), ec \in Entries(heap) :
           ( /\ ScenarioEntry(ea, 10) /\ ScenarioEntry(eb, 5) /\ ScenarioEntry(ec, 5)
             /\ ea[2] < eb[2] /\ eb[2] < ec[2] )
           => popped' = eb
    /\ (wpc = "fetch" /\ ScenarioFull /\ Len(heap) = 2 /\ ScenarioEntry(popped, 5)) =>
         \A ea \in Entries(heap), ec \in Entries(heap) :
           ( /\ ScenarioEntry(ea, 10) /\ ScenarioEntry(ec, 5)
             /\ ea[2] < popped[2] /\ popped[2] < ec[2] )
           => /\ Entries(heap') = Entries(heap) \cup {<<rq, counter + 1, popped[3]>>}
              /\ wpc' = "cooldown"
    /\ (wpc = "get" /\ Len(heap) = 3) =>
         \A ea \in Entries(heap), ec \in Entries(heap), er \in Entries(heap) :
           ( /\ ScenarioEntry(ea, 10) /\ ScenarioEntry(ec, 5)
             /\ er[1] = rq /\ ScenarioTicket(er[3], 5)
             /\ ea[2] < ec[2] /\ ec[2] < er[2] )
           => popped' = ec

\* C8 as stated: B is requeued at priority 15.
C8_RequeueScenarioAt15 == [][ScenarioStep(15)]_vars

\* C8 as amended: B is requeued at priority 10 (its priority_score 5 plus
\* 5); the next ticket dequeued is C (priority 5), before B (priority 10).
C8_RequeueScenarioAt10 == [][ScenarioStep(10)]_vars

\* capacity has freed, B waits at priority 10 behind A, and get() has popped C
C8_Witness ==
  /\ doctors = <<1>>
  /\ NonTerminalCount(1) = 0
  /\ wpc = "fetch"
  /\ Len(heap) = 2
  /\ ScenarioEntry(popped, 5)
  /\ \E ea \in Entries(heap), er \in Entries(heap) :
       /\ ScenarioEntry(ea, 10)
       /\ er[1] = 10 /\ ScenarioTicket(er[3], 5)
       /\ ea[2] < popped[2] /\ popped[2] < er[2]

\* C9: classifier fallback.  Whatever the triage agent returns, the triage
\* step of start_patient_workflow completes: the ticket's status becomes
\* triage_done and the ticket is enqueued at its stored priority_score.
C9_ClassifierFallback ==
  [][ \A id \in DOMAIN ipc :
        (ipc[id] = "triage" /\ ipc'[id] # "triage")
        => /\ ipc'[id] = "done"
           /\ tickets'[id].status = "triage_done"
           /\ \E e \in Entries(heap') :
                e[3] = id /\ e[1] = tickets'[id].priority_score
    ]_vars

\* C10: assignment/status consistency, the half the last clause of the
\* claim restates: a ticket with a non-null doctor_id has a status strictly
\* later than triage_done; a ticket in created or triage_done has none.
C10_AssignedIsPastTriage ==
  \A t \in DOMAIN tickets :
    tickets[t].doctor_id # Null
    => StatusRank(tickets[t].status) > StatusRank("triage_done")

\* C11: terminal tickets are skipped.  No step gives a doctor_id to a
\* ticket whose status is discharged or cancelled; a queued ticket that was
\* marked terminal before the loop popped it stays without a doctor.
C11_TerminalSkipped ==
  [][ \A t \in DOMAIN tickets :
        ( /\ tickets[t].status \in Terminal
          /\ tickets[t].doctor_id = Null
          /\ t \in DOMAIN tickets' )
        => tickets'[t].doctor_id = Null
    ]_vars

\* the first doctor, in ascending id, with fewer non-terminal tickets than
\* its max_patients, or Null
FirstNonSaturated ==
  LET free == {d \in 1..Len(doctors) : NonTerminalCount(d) < EffectiveMax(d)}
  IN IF free = {} THEN Null ELSE CHOOSE d \in free : \A e \in free : d <= e

\* C12: find_available_doctor returns the first doctor, in ascending id,
\* whose number of assigned tickets that are neither discharged nor
\* cancelled is below its max_patients, and none exactly when there is no
\* such doctor; a doctor whose tickets are all cancelled has spare capacity.
C12_FirstNonSaturated == find_available_doctor = FirstNonSaturated

\* C13: notification is best-effort.  When the push notification or the
\* WebSocket broadcast of an iteration fails, the iteration has stored the
\* doctor it found and the allocation log, puts nothing back in the queue
\* and ends in the 0.3 s sleep; the next step of the loop is a new get()
\* and leaves the assignment as it is.
C13_NotificationBestEffort ==
  [][ /\ (delivery # "failed" /\ delivery' = "failed") =>
           /\ wpc = "fetch" /\ wpc' = "yield"
           /\ find_available_doctor # Null
           /\ tickets'[popped[3]].doctor_id = find_available_doctor
           /\ BagIn(AgentLogRow(popped[3], "allocation", find_available_doctor), logs')
           /\ heap' = heap /\ counter' = counter
      /\ (delivery = "failed" /\ WorkerStep) =>
           /\ wpc = "yield" /\ wpc' = "get"
           /\ tickets' = tickets
           /\ heap' = heap /\ counter' = counter
    ]_vars

\* a delivery has failed; the ticket has its doctor and no queue entry, and
\* another ticket is waiting for the next iteration
C13_Witness ==
  /\ delivery = "failed"
  /\ wpc = "yield"
  /\ tickets[popped[3]].doctor_id # Null
  /\ \A e \in Entries(heap) : e[3] # popped[3]
  /\ heap # << >>

\* a is an initial segment of b
IsPrefix(a, b) == Len(a) <= Len(b) /\ SubSeq(b, 1, Len(a)) = a

\* C14: broadcast independence.  broadcast_to_doctor never raises; while
\* it runs it has called send_json on every socket of the list up to its
\* position, whatever the earlier sends did; when it returns it has called
\* send_json on every socket that was registered for the doctor when it was
\* called, in the order of the list, also when sockets registered or
\* unregistered during the call.
C14_BroadcastIndependence ==
  /\ bc.pc # "raised"
  /\ bc.pc = "sending" => bc.attempted = SubSeq(bc.list, 1, bc.pos)
  /\ bc.pc \in {"sending", "returned"} => bc.failed \subseteq 1..Len(bc.attempted)
  /\ bc.pc = "returned" => IsPrefix(bc.at_call, bc.attempted)

\* the send to the first of two sockets raised, the second socket was
\* attempted all the same and the call has returned
C14_Witness ==
  /\ bc.pc = "returned"
  /\ Len(bc.at_call) = 2
  /\ bc.at_call[1] # bc.at_call[2]
  /\ 1 \in bc.failed
  /\ bc.attempted = bc.at_call

\* C15: submission returns after queueing, not after assignment.  The
\* ticket id of a new submission was never used before; at the step in
\* which start_patient_workflow returns id, the ticket is stored with status
\* triage_done, the queue has gained exactly one entry, which is for id and
\* carries the stored priority_score, no entry for id was in the queue
\* before, and the ticket has no doctor_id.
C15_ReturnsAfterQueueing ==
  [][ /\ patient_count' # patient_count =>
           \E id \in DOMAIN tickets' \ DOMAIN tickets :
             /\ id \notin DOMAIN ipc
             /\ DOMAIN tickets' = DOMAIN tickets \cup {id}
      /\ \A id \in DOMAIN ipc :
           (ipc[id] = "triage" /\ ipc'[id] = "done") =>
             /\ id \in DOMAIN tickets'
             /\ tickets'[id].status = "triage_done"
             /\ tickets'[id].doctor_id = Null
             /\ \A f \in Entries(heap) : f[3] # id
             /\ Len(heap') = Len(heap) + 1
             /\ Entries(heap') \ Entries(heap) =
                  {<<tickets'[id].priority_score, counter', id>>}
    ]_vars

\* the second submission has returned: its ticket is queued at its stored
\* priority and has no doctor, while the worker holds no entry
C15_Witness ==
  /\ 2 \in DOMAIN ipc
  /\ ipc[2] = "done"
  /\ tickets[2].doctor_id = Null
  /\ tickets[2].status = "triage_done"
  /\ \E e \in Entries(heap) : e[3] = 2 /\ e[1] = tickets[2].priority_score
  /\ popped = << >>

\* the stored state a lookup must leave alone
Stored ==
  <<doctors, tickets, patient_count, logs, sent, heap, counter, connected_doctors>>

\* C16: lookups report NotFound exactly for unknown ids and change nothing.
\* api_get_ticket answers 404 exactly when no ticket with the id has been
\* created and else the ticket with that id; api_get_doctor_tickets answers
\* 404 exactly when the doctor does not exist and else one item for each
\* ticket whose doctor_id is that doctor, no more (an empty list when there
\* is none); neither touches the queue or a stored record.
C16_Lookups ==
  [][ (response = NoResponse /\ response' # NoResponse) =>
        /\ Stored' = Stored
        /\ response'.op = "api_get_ticket" =>
             /\ response'.status_code = 404 <=> response'.arg \notin DOMAIN ipc
             /\ response'.status_code # 404 =>
                  /\ response'.status_code = 200
                  /\ response'.body.id = response'.arg
                  /\ response'.body.status = tickets[response'.arg].status
                  /\ response'.body.urgency = tickets[response'.arg].urgency
                  /\ response'.body.doctor_id = tickets[response'.arg].doctor_id
        /\ response'.op = "api_get_doctor_tickets" =>
             /\ response'.status_code = 404 <=> response'.arg \notin 1..Len(doctors)
             /\ response'.status_code # 404 =>
                  /\ response'.status_code = 200
                  /\ {response'.body[i].id : i \in 1..Len(response'.body)}
                       = {t \in DOMAIN tickets : tickets[t].doctor_id = response'.arg}
                  /\ Len(response'.body)
                       = Cardinality({t \in DOMAIN tickets :
                                        tickets[t].doctor_id = response'.arg})
                  /\ \A i \in 1..Len(response'.body) :
                       response'.body[i].status = tickets[response'.body[i].id].status
    ]_vars

\* a doctor's listing has answered with the two tickets assigned to it
C16_Witness ==
  /\ response # NoResponse
  /\ response.op = "api_get_doctor_tickets"
  /\ response.status_code = 200
  /\ Len(response.body) = 2
  /\ \A i \in 1..2 : tickets[response.body[i].id].doctor_id = response.arg

\* C17: intake before allocation.  A step that gives ticket t a doctor_id
\* is a step of the loop on the entry its last get() returned, that entry
\* is for t, and the submission of t has put t in the queue and returned;
\* get() returns only entries that are in the queue, and an entry enters the
\* queue only for a ticket whose submission puts it in that step or has put
\* it before.
C17_EnqueuedBeforeAssigned ==
  [][ /\ \A t \in DOMAIN tickets :
           ( /\ tickets[t].doctor_id = Null
             /\ t \in DOMAIN tickets'
             /\ tickets'[t].doctor_id # Null )
           => /\ wpc = "fetch"
              /\ popped # << >>
              /\ popped[3] = t
              /\ ipc[t] = "done"
      /\ (popped' # popped /\ popped' # << >>) =>
           /\ popped' \in Entries(heap)
           /\ popped' \notin Entries(heap')
      /\ \A e \in Entries(heap') \ Entries(heap) :
           /\ e[3] \in DOMAIN ipc
           /\ \/ ipc[e[3]] = "triage" /\ ipc'[e[3]] = "done"
              \/ ipc[e[3]] = "done" /\ popped # << >> /\ popped[3] = e[3]
    ]_vars

\* ticket 2, submitted after ticket 1, has been enqueued and assigned while
\* ticket 1 still waits for its triage answer and has no doctor
C17_Witness ==
  /\ DOMAIN tickets = {1, 2}
  /\ tickets[2].doctor_id # Null
  /\ tickets[1].doctor_id = Null
  /\ ipc[1] = "triage"

\* the AgentLog rows of stage "allocation" for ticket t
AllocationRows(t, log) ==
  {r \in BagToSet(log) : r.ticket_id = t /\ r.stage = "allocation"}

\* C18: the allocation log is written exactly once per assignment.  In
\* every state reached, a ticket has at most one AgentLog row of stage
\* "allocation"; a ticket that an iteration has assigned to doctor d has
\* exactly one, and it records d; a ticket without a doctor has none; and
\* no step modifies or deletes a row of AgentLog.
C18_AllocationLoggedOnce ==
  [][ /\ logs \sqsubseteq logs'
      /\ \A t \in DOMAIN tickets' :
           /\ \A r \in AllocationRows(t, logs') : CopiesIn(r, logs') = 1
           /\ Cardinality(AllocationRows(t, logs')) <= 1
           /\ tickets'[t].doctor_id # Null =>
                AllocationRows(t, logs') =
                  {[ticket_id |-> t, stage |-> "allocation",
                    doctor_id |-> tickets'[t].doctor_id]}
           /\ tickets'[t].doctor_id = Null => AllocationRows(t, logs') = {}
    ]_vars

\* two iterations have each assigned a ticket: AgentLog holds the reception,
\* triage and allocation rows of both tickets and nothing else
C18_Witness ==
  /\ wpc = "yield"
  /\ DOMAIN tickets = {1, 2}
  /\ \A t \in {1, 2} : tickets[t].doctor_id # Null
  /\ BagCardinality(logs) = 6

\* C19: the queue under concurrent callers.  With submissions and the
\* loop's requeue and get() interleaved in every order: the entries in the
\* queue have distinct sequence numbers, none above _counter, and no entry
\* is held twice; a put raises _counter by one and adds exactly one entry,
\* numbered with the new _counter, which is above every earlier number; a
\* step without a put adds nothing and removes at most the entry get()
\* returned; and get() never returns an entry while another of the same
\* priority and a smaller sequence number waits, so two submissions of
\* equal priority leave in the order of their puts.
C19_QueueLinearizable ==
  [][ /\ Len(heap') = Cardinality(Entries(heap'))
      /\ \A e \in Entries(heap'), f \in Entries(heap') : e[2] = f[2] => e = f
      /\ \A e \in Entries(heap') : 1 <= e[2] /\ e[2] <= counter'
      /\ counter' # counter =>
           /\ counter' = counter + 1
           /\ Len(heap') = Len(heap) + 1
           /\ \E e \in Entries(heap') :
                /\ e[2] = counter'
                /\ Entries(heap') = Entries(heap) \cup {e}
                /\ e \notin Entries(heap)
      /\ counter' = counter =>
           \/ heap' = heap
           \/ /\ wpc = "get"
              /\ popped' \in Entries(heap)
              /\ Entries(heap') = Entries(heap) \ {popped'}
              /\ Len(heap') = Len(heap) - 1
              /\ \A f \in Entries(heap') :
                   f[1] = popped'[1] => f[2] > popped'[2]
    ]_vars

\* two submissions got the same priority; get() has returned the one that
\* was put first and the other one is still in the queue
C19_Witness ==
  /\ wpc = "fetch"
  /\ popped # << >>
  /\ \E e \in Entries(heap) :
       /\ e[1] = popped[1]
       /\ e[3] # popped[3]
       /\ e[2] = popped[2] + 1

C21_PriorityMapping ==
  [][ \A id \in DOMAIN ipc, resp \in PriorityOutputs :
        start_patient_workflow_triage(id, resp) =>
          LET sc == resp.score[2]
              stored == tickets'[id].priority_score
          IN /\ stored = (IF 100 - sc >= 0 THEN 100 - sc ELSE 0)
             /\ stored >= 0
             /\ sc \in 0..100 => stored \in 0..100
             /\ \A r2 \in PriorityOutputs :
                  /\ r2.score[2] > sc => PriorityOf(TriageScore(r2)) <= stored
                  /\ r2.score[2] < sc => PriorityOf(TriageScore(r2)) >= stored
             /\ \E e \in Entries(heap') : e[3] = id /\ e[1] = stored
    ]_vars

\* one ticket was triaged with a score above 100 and is stored at priority
\* 0, another with a score below 0 and is stored above 100
C21_Witness ==
  /\ DOMAIN tickets = {1, 2}
  /\ ipc[1] = "done" /\ ipc[2] = "done"
  /\ tickets[1].priority_score = 0
  /\ tickets[2].priority_score > 100

\* C22: zero capacity is respected.  For a doctor whose max_patients is 0,
\* find_available_doctor does not return that doctor when the loop calls
\* it, and no ticket has that doctor as its doctor_id.
C22_ZeroCapacityRespected ==
  \A d \in 1..Len(doctors) :
    doctors[d] = 0 =>
      /\ (wpc = "fetch" /\ popped[3] \in DOMAIN tickets) => find_available_doctor # d
      /\ \A t \in DOMAIN tickets : tickets[t].doctor_id # d

\* the positions of the queue that hold an entry for ticket t
EntriesOf(t) == {i \in 1..Len(heap) : heap[i][3] = t}

\* C23: at most one queue entry per ticket.  In every state reached by
\* submissions and loop iterations in any order, the queue holds at most
\* one entry for a ticket id, none while the loop holds that ticket's entry,
\* and none for a ticket that has a doctor_id.
C23_OneEntryPerTicket ==
  \A t \in DOMAIN ipc :
    /\ Cardinality(EntriesOf(t)) <= 1
    /\ (wpc \in {"fetch"} /\ popped # << >> /\ popped[3] = t) => EntriesOf(t) = {}
    /\ (t \in DOMAIN tickets /\ tickets[t].doctor_id # Null) => EntriesOf(t) = {}

\* after a requeue and its cooldown: ticket 1 has a doctor and no entry,
\* ticket 2 has been requeued and has exactly one entry, at priority_score + 5
C23_Witness ==
  /\ wpc = "get"
  /\ DOMAIN tickets = {1, 2}
  /\ tickets[1].doctor_id # Null
  /\ tickets[2].doctor_id = Null
  /\ Len(heap) = 1
  /\ heap[1][3] = 2
  /\ heap[1][1] = tickets[2].priority_score + RequeuePenalty

\* C24: no ticket is lost.  Without storage errors, in every state each
\* ticket whose submission has returned and whose doctor_id is null has an
\* entry in the queue, or its entry is the one the loop has dequeued and
\* has not yet requeued or assigned.
C24_NoTicketLost ==
  \A t \in DOMAIN tickets :
    (ipc[t] = "done" /\ tickets[t].doctor_id = Null) =>
      \/ \E e \in Entries(heap) : e[3] = t
      \/ wpc = "fetch" /\ popped # << >> /\ popped[3] = t

\* two submissions have returned and neither ticket has a doctor: the loop
\* holds the entry of one of them and the other one waits in the queue
C24_Witness ==
  /\ wpc = "fetch"
  /\ DOMAIN tickets = {1, 2}
  /\ \A t \in {1, 2} : ipc[t] = "done" /\ tickets[t].doctor_id = Null
  /\ Len(heap) = 1
  /\ heap[1][3] # popped[3]

\* C25: the requeue penalty does not accumulate.  No step of the loop
\* changes a stored priority_score, and no step at all changes it once the
\* submission has returned; every entry in the queue or in the loop's hands
\* for ticket t has priority p or p + 5, p being the stored priority_score
\* of t, however often t was requeued.
C25_PenaltyDoesNotAccumulate ==
  [][ /\ \A t \in DOMAIN tickets :
           (WorkerStep \/ ipc[t] = "done") =>
             tickets'[t].priority_score = tickets[t].priority_score
      /\ \A e \in Entries(heap') \cup (IF popped' = << >> THEN {} ELSE {popped'}) :
           /\ e[3] \in DOMAIN tickets'
           /\ \/ e[1] = tickets'[e[3]].priority_score
              \/ e[1] = tickets'[e[3]].priority_score + 5
    ]_vars

\* the loop popped an entry that was already a requeue (priority p + 5) and
\* has requeued it again: the new entry is again at p + 5
C25_Witness ==
  /\ wpc = "cooldown"
  /\ popped[1] = tickets[popped[3]].priority_score + 5
  /\ \E e \in Entries(heap) :
       /\ e[3] = popped[3]
       /\ e[2] > popped[2]
       /\ e[1] = tickets[popped[3]].priority_score + 5

\* the urgency classes, most urgent first
UrgencyRank(u) == CASE u = "critical" -> 1 [] u = "urgent" -> 2 [] OTHER -> 3

\* the urgency class of the ticket of a queue entry
EntryRank(e) == UrgencyRank(tickets[e[3]].urgency)

\* C26: urgency classes are never inverted under the mock classifier
\* (scores 95, 80, 60).  In every state an entry of a ticket of a more
\* urgent class has a strictly smaller priority than an entry of a ticket
\* of a less urgent class, requeued or not (the priority at which a ticket
\* is requeued is below the stored priority_score of every ticket of a less
\* urgent class); and get() returns no entry while an entry of a more
\* urgent class is in the queue.
C26_UrgencyNeverInverted ==
  [][ /\ \A e \in Entries(heap'), f \in Entries(heap') :
           UrgencyRank(tickets'[e[3]].urgency) < UrgencyRank(tickets'[f[3]].urgency)
             => e[1] < f[1]
      /\ \A t \in DOMAIN tickets', u \in DOMAIN tickets' :
           ( /\ ipc'[t] = "done" /\ ipc'[u] = "done"
             /\ UrgencyRank(tickets'[t].urgency) < UrgencyRank(tickets'[u].urgency) )
           => RequeuePriority(t)' < tickets'[u].priority_score
      /\ (wpc = "get" /\ WorkerStep /\ popped' # << >>) =>
           \A f \in Entries(heap) : EntryRank(popped') <= EntryRank(f)
    ]_vars

\* a critical ticket submitted after an urgent or normal one has been
\* returned by get() first; the other ticket is still in the queue
C26_Witness ==
  /\ wpc = "fetch"
  /\ popped # << >>
  /\ popped[3] = 2
  /\ tickets[2].urgency = "critical"
  /\ \E f \in Entries(heap) : f[3] = 1 /\ tickets[1].urgency # "critical"

====
